---- MODULE Spec2Model ----
(***************************************************************************)
(* The transforms of eeg_models/transforms.py as a state machine.          *)
(*                                                                         *)
(* One transform object is followed through its life: it is constructed    *)
(* (`self`), then its fit and transform methods are called one at a time   *)
(* by a single-threaded caller.  `call` is the call that has just ended    *)
(* (its arguments, how it ended, what it returned); `pc` says whether the  *)
(* caller still holds that result ("done") or is about to call ("idle").   *)
(*                                                                         *)
(* Arrays are sequences.  A label is a tagged value, because the code      *)
(* converts labels with dtype=int and the conversion depends on the kind.  *)
(***************************************************************************)
EXTENDS Integers, Sequences, FiniteSets, TLC

VARIABLES
    self,       \* the transform object, [class |-> "none"] before construction
    made,       \* the object as its constructor left it
    pc,         \* "idle" | "done"
    call,       \* the call that just ended
    fed         \* ChannellwiseScaler: the samples given to fit so far, per channel

vars == <<self, made, pc, call, fed>>

----------------------------------------------------------------------------
(* Bounds of the model *)

MaxLen == 2         \* longest marker record enumerated
MaxBatch == 2       \* most records in a batch
MaxSignalLen == 30  \* longest 1-D signal enumerated
MaxFactor == 3      \* largest downsampling factor
MaxRate == 6        \* largest sampling rate
MaxFreq == 3        \* largest cutoff frequency
MaxOrder == 2       \* largest filter order
MaxSeen == 4        \* most samples per channel a scaler is fitted on

----------------------------------------------------------------------------
(* Values shared by the classes *)

NoObject == [class |-> "none"]
NoCall == [method |-> "none", outcome |-> "none"]

Min(a, b) == IF a <= b THEN a ELSE b
Max(a, b) == IF a >= b THEN a ELSE b

\* all sequences over S of length 0..n
SeqsUpTo(S, n) == UNION {[1..k -> S] : k \in 0..n}

----------------------------------------------------------------------------
(* MarkersTransformer *)

\* Python values a labels_mapping can hold
IntLabel(n) == [kind |-> "int", num |-> n, text |-> ""]
FloatLabel(halves) == [kind |-> "float", num |-> halves, text |-> ""]   \* halves / 2
StrLabel(s) == [kind |-> "str", num |-> 0, text |-> s]

MarkerValues == {0, 1, 2}
MarkerKeys == {1, 2}
\* the labels a key may be given: integers, a float (7.5) and strings
LabelsFor(key) ==
    IF key = 1
    THEN {IntLabel(8), FloatLabel(15), StrLabel("B")}
    ELSE {IntLabel(7), StrLabel("A")}
DecimationFactors == {1, 2}
EmptyLabels == {0}

\* dicts from marker value to label, over any subset of the keys
LabelMappings ==
    UNION {{m \in [D -> UNION {LabelsFor(k) : k \in D}] :
               \A k \in D : m[k] \in LabelsFor(k)} : D \in SUBSET MarkerKeys}

ExampleMarkers == <<0, 0, 2, 0, 1, 0>>
MarkerRecords == SeqsUpTo(MarkerValues, MaxLen)
MarkerBatches == SeqsUpTo(MarkerRecords, MaxBatch) \cup {<<ExampleMarkers>>}

NewMarkersTransformer(labels_mapping, decimation_factor, empty_label) ==
    [class |-> "MarkersTransformer",
     labels_mapping |-> labels_mapping,
     decimation_factor |-> decimation_factor,
     empty_label |-> empty_label]

\* a mutant: the raw index is kept
NewIndexRaw(index, decimation_factor) == index

\* line 126
NewIndex(index, decimation_factor) == index \div decimation_factor

\* a mutant: dict.get with a default label instead of a lookup
LookupLabelDefault(labels_mapping, label) ==
    IF label \in DOMAIN labels_mapping
    THEN [outcome |-> "ok", value |-> labels_mapping[label]]
    ELSE [outcome |-> "ok", value |-> IntLabel(0)]

\* line 127: labels_mapping[label], a KeyError when the key is absent
LookupLabel(labels_mapping, label) ==
    IF label \in DOMAIN labels_mapping
    THEN [outcome |-> "ok", value |-> labels_mapping[label]]
    ELSE [outcome |-> "KeyError", value |-> IntLabel(0)]

\* lines 122-128: the scan of one record from position `index` (0-based)
RECURSIVE ScanMarkers(_, _, _, _)
ScanMarkers(obj, markers, index, index_label) ==
    IF index >= Len(markers)
    THEN [outcome |-> "ok", index_label |-> index_label]
    ELSE LET label == markers[index + 1] IN
         IF label = obj.empty_label
         THEN ScanMarkers(obj, markers, index + 1, index_label)
         ELSE LET new_index == NewIndex(index, obj.decimation_factor)
                  found == LookupLabel(obj.labels_mapping, label)
              IN  IF found.outcome # "ok"
                  THEN [outcome |-> found.outcome, index_label |-> index_label]
                  ELSE ScanMarkers(obj, markers, index + 1,
                                   Append(index_label, <<new_index, found.value>>))

\* int(x) of a Python value: exact on ints, truncation toward zero on floats
ToInt(label) ==
    IF label.kind = "int" THEN label.num
    ELSE IF label.num >= 0 THEN label.num \div 2 ELSE -((-label.num) \div 2)

\* the strings of the model are not integer literals: int() rejects them
Convertible(label) == label.kind \in {"int", "float"}

\* a mutant: the list is kept as it is (dtype=object)
NpArrayObject(index_label) ==
    [outcome |-> "ok",
     array |-> index_label]

\* line 130: np.array(index_label, dtype=np.int); the elements of the array are
\* integers, written IntLabel(n) so that they compare with the labels of the dict
NpArrayInt(index_label) ==
    IF \E k \in 1..Len(index_label) : ~Convertible(index_label[k][2])
    THEN [outcome |-> "ValueError", array |-> <<>>]
    ELSE [outcome |-> "ok",
          array |-> [k \in 1..Len(index_label) |->
                        <<index_label[k][1], IntLabel(ToInt(index_label[k][2]))>>]]

\* lines 118-132: the loop over the records, from record k on
RECURSIVE MarkersLoop(_, _, _, _)
MarkersLoop(obj, batch, k, res) ==
    IF k > Len(batch)
    THEN [outcome |-> "ok", result |-> res]
    ELSE LET scan == ScanMarkers(obj, batch[k], 0, <<>>) IN
         IF scan.outcome # "ok"
         THEN [outcome |-> scan.outcome, result |-> <<>>]
         ELSE LET arr == NpArrayInt(scan.index_label) IN
              IF arr.outcome # "ok"
              THEN [outcome |-> arr.outcome, result |-> <<>>]
              ELSE MarkersLoop(obj, batch, k + 1, Append(res, arr.array))

MarkersTransformer_transform(obj, batch) == MarkersLoop(obj, batch, 1, <<>>)

----------------------------------------------------------------------------
(* 1-D signals, for ButterFilter and Decimator *)

\* the filters are scipy's; what they compute is kept as a term: the output
\* sample at the place of input sample x[i], under the coefficients `coef`
FiltFilt(coef, x) == [i \in 1..Len(x) |-> [tap |-> x[i], coef |-> coef]]

\* the signal of n samples 1, 2, ..., n
Ramp(n) == [i \in 1..n |-> i]
Signals == {Ramp(n) : n \in 1..MaxSignalLen}
SignalBatches == SeqsUpTo(Signals, MaxBatch)

----------------------------------------------------------------------------
(* ButterFilter *)

SamplingRates == 0..MaxRate
Orders == 1..MaxOrder
Frequencies == 0..MaxFreq

\* a mutant: the cutoff is divided by the sampling rate, not by half of it
NormalCutoffFullRate(a, sampling_rate) == [num |-> a, den |-> sampling_rate]

\* line 28: a / (0.5 * sampling_rate), kept as a fraction
NormalCutoff(a, sampling_rate) == [num |-> 2 * a, den |-> sampling_rate]

\* fractions with positive denominators
FracLess(p, q) == p.num * q.den < q.num * p.den
FracAtLeastOne(p) == p.num >= p.den

\* line 30: signal.butter(order, Wn, btype="bandpass").  The design rejects a
\* critical frequency outside 0 < Wn < 1 and a band with Wn[0] >= Wn[1]; the
\* coefficients are a function of the order and the band
SignalButter(order, Wn) ==
    IF \/ \E k \in 1..2 : Wn[k].num <= 0
       \/ ~FracLess(Wn[1], Wn[2])
       \/ \E k \in 1..2 : FracAtLeastOne(Wn[k])
    THEN [outcome |-> "ValueError", filter |-> <<>>]
    ELSE [outcome |-> "ok", filter |-> [N |-> order, Wn |-> Wn, btype |-> "bandpass"]]

\* lines 21-30
ButterFilter_init(sampling_rate, order, highpass, lowpass) ==
    IF sampling_rate = 0
    THEN [outcome |-> "ZeroDivisionError", object |-> NoObject]
    ELSE LET normal_cutoff == <<NormalCutoff(highpass, sampling_rate),
                                NormalCutoff(lowpass, sampling_rate)>>
             design == SignalButter(order, normal_cutoff)
         IN  IF design.outcome # "ok"
             THEN [outcome |-> design.outcome, object |-> NoObject]
             ELSE [outcome |-> "ok",
                   object |-> [class |-> "ButterFilter",
                               sampling_rate |-> sampling_rate,
                               order |-> order,
                               highpass |-> highpass,
                               lowpass |-> lowpass,
                               filter |-> design.filter]]

\* filtfilt pads the signal by 3 * max(len(a), len(b)) samples at each end and
\* needs a longer signal; a band-pass design of order N has 2N + 1 coefficients
ButterPadlen(filter) == 3 * (2 * filter.N + 1)

\* line 34, one item: signal.filtfilt(*self.filter, item)
ButterItem(obj, item) ==
    IF Len(item) <= ButterPadlen(obj.filter)
    THEN [outcome |-> "ValueError", array |-> <<>>]
    ELSE [outcome |-> "ok", array |-> FiltFilt(obj.filter, item)]

\* lines 33-35: the list of line 34 is built first, then copied into `out`
RECURSIVE ButterLoop(_, _, _, _)
ButterLoop(obj, batch, k, out) ==
    IF k > Len(batch)
    THEN [outcome |-> "ok", result |-> out]
    ELSE LET y == ButterItem(obj, batch[k]) IN
         IF y.outcome # "ok"
         THEN [outcome |-> y.outcome, result |-> <<>>]
         ELSE ButterLoop(obj, batch, k + 1, Append(out, y.array))

ButterFilter_transform(obj, batch) == ButterLoop(obj, batch, 1, <<>>)

----------------------------------------------------------------------------
(* Decimator *)

Factors == 1..MaxFactor

\* lines 41-47
NewDecimator(factor) == [class |-> "Decimator", factor |-> factor]

\* signal.decimate's default filter: Chebyshev type I, order 8, cut at 0.8 / q,
\* applied forward and backward; its 9 coefficients give filtfilt a padding of 27
DecimateFilter(q) == [ftype |-> "cheby1", N |-> 8, q |-> q]
DecimatePadlen == 27

\* a mutant: only whole groups of q samples give an output sample
EveryQthWhole(y, q) == [k \in 1..(Len(y) \div q) |-> y[(k - 1) * q + 1]]

\* y[::q]: the samples at the 0-based positions 0, q, 2q, ...
EveryQth(y, q) ==
    LET kept == {i \in 0..(Len(y) - 1) : i % q = 0}
    IN  [k \in 1..Cardinality(kept) |-> y[(k - 1) * q + 1]]

\* line 60, one item: signal.decimate(item, self.factor)
Decimate(item, q) ==
    IF Len(item) <= DecimatePadlen
    THEN [outcome |-> "ValueError", array |-> <<>>]
    ELSE [outcome |-> "ok", array |-> EveryQth(FiltFilt(DecimateFilter(q), item), q)]

\* lines 59-61: the list of line 60 is built first, then its items become the
\* elements of the object array `out`
RECURSIVE DecimatorLoop(_, _, _, _)
DecimatorLoop(obj, batch, k, out) ==
    IF k > Len(batch)
    THEN [outcome |-> "ok", result |-> out]
    ELSE LET y == Decimate(batch[k], obj.factor) IN
         IF y.outcome # "ok"
         THEN [outcome |-> y.outcome, result |-> <<>>]
         ELSE DecimatorLoop(obj, batch, k + 1, Append(out, y.array))

Decimator_transform(obj, batch) == DecimatorLoop(obj, batch, 1, <<>>)

----------------------------------------------------------------------------
(* The wrapped scaler: sklearn's MinMaxScaler, fitted incrementally *)

\* numpy arrays of the scaler's interface carry their number of dimensions
Array(ndim, data) == [ndim |-> ndim, data |-> data]

\* ndarray.T: the transpose of a matrix, a 1-D array itself
TransposeOf(a) ==
    IF a.ndim = 2
    THEN Array(2, [j \in 1..Len(a.data[1]) |->
                      [i \in 1..Len(a.data) |-> a.data[i][j]]])
    ELSE a

UnfittedScaler ==
    [fitted |-> FALSE, n_samples_seen |-> 0, data_min |-> <<>>, data_max |-> <<>>]

\* the smallest / largest value of column j of a matrix, joined with `start`
RECURSIVE ColumnMin(_, _, _, _)
ColumnMin(rows, j, i, start) ==
    IF i > Len(rows) THEN start ELSE ColumnMin(rows, j, i + 1, Min(start, rows[i][j]))
RECURSIVE ColumnMax(_, _, _, _)
ColumnMax(rows, j, i, start) ==
    IF i > Len(rows) THEN start ELSE ColumnMax(rows, j, i + 1, Max(start, rows[i][j]))

\* a mutant: scaler.fit, which starts from nothing
ScalerFit(s, X) ==
    IF X.ndim # 2
    THEN [outcome |-> "ValueError", scaler |-> s]
    ELSE [outcome |-> "ok",
          scaler |-> [fitted |-> TRUE,
                      n_samples_seen |-> Len(X.data),
                      data_min |-> [j \in 1..Len(X.data[1]) |->
                                       ColumnMin(X.data, j, 2, X.data[1][j])],
                      data_max |-> [j \in 1..Len(X.data[1]) |->
                                       ColumnMax(X.data, j, 2, X.data[1][j])]]]

\* scaler.partial_fit(X), X of shape (samples, features): a 1-D array or another
\* number of features is refused; the running minimum and maximum of every
\* feature and the number of samples are updated
ScalerPartialFit(s, X) ==
    IF X.ndim # 2
    THEN [outcome |-> "ValueError", scaler |-> s]
    ELSE IF s.fitted /\ Len(s.data_min) # Len(X.data[1])
    THEN [outcome |-> "ValueError", scaler |-> s]
    ELSE [outcome |-> "ok",
          scaler |-> [fitted |-> TRUE,
                      n_samples_seen |-> s.n_samples_seen + Len(X.data),
                      data_min |-> [j \in 1..Len(X.data[1]) |->
                                       ColumnMin(X.data, j, 1,
                                           IF s.fitted THEN s.data_min[j] ELSE X.data[1][j])],
                      data_max |-> [j \in 1..Len(X.data[1]) |->
                                       ColumnMax(X.data, j, 1,
                                           IF s.fitted THEN s.data_max[j] ELSE X.data[1][j])]]]

\* (x - min) / (max - min), a constant feature divided by 1, kept as a fraction
Scaled(x, lo, hi) == [num |-> x - lo, den |-> IF hi = lo THEN 1 ELSE hi - lo]

\* scaler.transform(X): the scaler reads its statistics and leaves them alone; it
\* checks that it is fitted first, then the shape of X
ScalerTransform(s, X) ==
    IF ~s.fitted
    THEN [outcome |-> "NotFittedError", array |-> Array(0, <<>>), scaler |-> s]
    ELSE IF X.ndim # 2
    THEN [outcome |-> "ValueError", array |-> Array(0, <<>>), scaler |-> s]
    ELSE IF Len(s.data_min) # Len(X.data[1])
    THEN [outcome |-> "ValueError", array |-> Array(0, <<>>), scaler |-> s]
    ELSE [outcome |-> "ok",
          array |-> Array(2, [i \in 1..Len(X.data) |->
                                 [j \in 1..Len(X.data[1]) |->
                                     Scaled(X.data[i][j], s.data_min[j], s.data_max[j])]]),
          scaler |-> s]

----------------------------------------------------------------------------
(* ChannellwiseScaler *)

Channels == {1, 2}
TickCounts == {1, 2}
SampleValues == {0, 1}

\* one EEG: a matrix (n_channels, n_ticks), a row per channel
Eegs == UNION {[Channels -> [1..t -> SampleValues]] : t \in TickCounts}

\* what transform accepts: many records (a sequence of matrices or a 3-D array)
\* or one record (a 2-D array)
ManyRecords(records) == [form |-> "many", data |-> records]
OneRecord(eeg) == [form |-> "one", data |-> <<eeg>>]
EegBatches == {ManyRecords(b) : b \in SeqsUpTo(Eegs, MaxBatch)}
EegInputs == EegBatches \cup {OneRecord(e) : e \in Eegs}

\* `for signals in batch`: the records of a batch, the rows of a single matrix
Items(batch) ==
    IF batch.form = "many"
    THEN [k \in 1..Len(batch.data) |-> Array(2, batch.data[k])]
    ELSE [k \in 1..Len(batch.data[1]) |-> Array(1, batch.data[1][k])]

\* lines 67-73
NewChannellwiseScaler(scaler) == [class |-> "ChannellwiseScaler", scaler |-> scaler]

\* a mutant: every record starts the statistics again
FitItemFromScratch(s, signals) == ScalerFit(s, TransposeOf(signals))

\* line 82: self.scaler.partial_fit(signals.T)
FitItem(s, signals) == ScalerPartialFit(s, TransposeOf(signals))

\* lines 81-83: the loop over the batch; `log` is what the scaler was handed
RECURSIVE FitLoop(_, _, _, _)
FitLoop(s, items, k, log) ==
    IF k > Len(items)
    THEN [outcome |-> "ok", scaler |-> s, log |-> log]
    ELSE LET r == FitItem(s, items[k]) IN
         IF r.outcome # "ok"
         THEN [outcome |-> r.outcome, scaler |-> r.scaler,
               log |-> Append(log, TransposeOf(items[k]))]
         ELSE FitLoop(r.scaler, items, k + 1, Append(log, TransposeOf(items[k])))

ChannellwiseScaler_fit(obj, batch) == FitLoop(obj.scaler, Items(batch), 1, <<>>)

\* a mutant: a failure of the scaler is swallowed and the record passed through
TransformItemMasked(s, signals) ==
    LET r == ScalerTransform(s, TransposeOf(signals)) IN
    IF r.outcome = "ok"
    THEN [outcome |-> "ok", array |-> TransposeOf(r.array), scaler |-> r.scaler]
    ELSE [outcome |-> "ok", array |-> signals, scaler |-> r.scaler]

\* a mutant: fit_transform in place of transform
TransformItemFitting(s, signals) ==
    LET f == ScalerPartialFit(s, TransposeOf(signals))
        r == ScalerTransform(f.scaler, TransposeOf(signals))
    IN  [outcome |-> r.outcome, array |-> TransposeOf(r.array), scaler |-> f.scaler]

\* line 99: self.scaler.transform(signals.T).T
TransformItem(s, signals) ==
    LET r == ScalerTransform(s, TransposeOf(signals)) IN
    [outcome |-> r.outcome, array |-> TransposeOf(r.array), scaler |-> r.scaler]

\* lines 96-100: the loop over the batch, filling `scaled`
RECURSIVE ScaleLoop(_, _, _, _, _)
ScaleLoop(s, items, k, scaled, log) ==
    IF k > Len(items)
    THEN [outcome |-> "ok", scaler |-> s, scaled |-> scaled, log |-> log]
    ELSE LET r == TransformItem(s, items[k]) IN
         IF r.outcome # "ok"
         THEN [outcome |-> r.outcome, scaler |-> r.scaler, scaled |-> <<>>,
               log |-> Append(log, TransposeOf(items[k]))]
         ELSE ScaleLoop(r.scaler, items, k + 1, Append(scaled, r.array),
                        Append(log, TransposeOf(items[k])))

\* lines 96-100: `scaled` has the container form of `batch`
ChannellwiseScaler_transform(obj, batch) ==
    LET r == ScaleLoop(obj.scaler, Items(batch), 1, <<>>, <<>>) IN
    [outcome |-> r.outcome, scaler |-> r.scaler, log |-> r.log,
     result |-> [form |-> batch.form, items |-> r.scaled]]

\* the samples a batch of records holds, per channel
NothingFed == [count |-> 0, values |-> [c \in Channels |-> {}]]

RECURSIVE TotalTicks(_)
TotalTicks(records) ==
    IF records = <<>> THEN 0 ELSE Len(Head(records)[1]) + TotalTicks(Tail(records))

Feed(f, records) ==
    [count |-> f.count + TotalTicks(records),
     values |-> [c \in Channels |->
                   f.values[c] \cup
                   UNION {{records[r][c][t] : t \in 1..Len(records[r][c])} :
                             r \in 1..Len(records)}]]

----------------------------------------------------------------------------
(* Transform: the inherited fit, which does not look at its arguments *)

\* a mutant: fit forgets what the constructor derived
Transform_fit_reset(obj) == [class |-> obj.class]

\* lines 14-15: return self
Transform_fit(obj) == obj

----------------------------------------------------------------------------
(* Actions *)

Init ==
    /\ self = NoObject
    /\ made = NoObject
    /\ pc = "idle"
    /\ call = NoCall
    /\ fed = NothingFed

ConstructMarkers ==
    /\ pc = "idle"
    /\ self.class = "none"
    /\ \E m \in LabelMappings, d \in DecimationFactors, e \in EmptyLabels :
          /\ self' = NewMarkersTransformer(m, d, e)
          /\ made' = self'
          /\ call' = [method |-> "__init__", class |-> self'.class, outcome |-> "ok"]
    /\ pc' = "done"
    /\ UNCHANGED fed

FitMarkers ==
    /\ pc = "idle"
    /\ self.class = "MarkersTransformer"
    /\ \E batch \in SeqsUpTo(MarkerRecords, 1) :
          /\ self' = Transform_fit(self)
          /\ call' = [method |-> "fit", outcome |-> "ok", returned |-> self']
    /\ pc' = "done"
    /\ UNCHANGED <<made, fed>>

TransformMarkers ==
    /\ pc = "idle"
    /\ self.class = "MarkersTransformer"
    /\ \E batch \in MarkerBatches :
          LET r == MarkersTransformer_transform(self, batch) IN
          call' = [method |-> "transform", batch |-> batch,
                   outcome |-> r.outcome, result |-> r.result]
    /\ pc' = "done"
    /\ UNCHANGED <<self, made, fed>>

ConstructButter ==
    /\ pc = "idle"
    /\ self.class = "none"
    /\ \E sr \in SamplingRates, order \in Orders, hp \in Frequencies, lp \in Frequencies :
          LET r == ButterFilter_init(sr, order, hp, lp) IN
          /\ self' = r.object
          /\ made' = r.object
          /\ call' = [method |-> "__init__", class |-> "ButterFilter",
                      outcome |-> r.outcome, sampling_rate |-> sr, order |-> order,
                      highpass |-> hp, lowpass |-> lp]
    /\ pc' = "done"
    /\ UNCHANGED fed

FitButter ==
    /\ pc = "idle"
    /\ self.class = "ButterFilter"
    /\ \E batch \in SeqsUpTo(Signals, 1) :
          /\ self' = Transform_fit(self)
          /\ call' = [method |-> "fit", outcome |-> "ok", returned |-> self']
    /\ pc' = "done"
    /\ UNCHANGED <<made, fed>>

TransformButter ==
    /\ pc = "idle"
    /\ self.class = "ButterFilter"
    /\ \E batch \in SignalBatches :
          LET r == ButterFilter_transform(self, batch) IN
          call' = [method |-> "transform", batch |-> batch,
                   outcome |-> r.outcome, result |-> r.result]
    /\ pc' = "done"
    /\ UNCHANGED <<self, made, fed>>

ConstructDecimator ==
    /\ pc = "idle"
    /\ self.class = "none"
    /\ \E factor \in Factors :
          /\ self' = NewDecimator(factor)
          /\ made' = self'
          /\ call' = [method |-> "__init__", class |-> self'.class, outcome |-> "ok"]
    /\ pc' = "done"
    /\ UNCHANGED fed

FitDecimator ==
    /\ pc = "idle"
    /\ self.class = "Decimator"
    /\ \E batch \in SeqsUpTo(Signals, 1) :
          /\ self' = Transform_fit(self)
          /\ call' = [method |-> "fit", outcome |-> "ok", returned |-> self']
    /\ pc' = "done"
    /\ UNCHANGED <<made, fed>>

TransformDecimator ==
    /\ pc = "idle"
    /\ self.class = "Decimator"
    /\ \E batch \in SignalBatches :
          LET r == Decimator_transform(self, batch) IN
          call' = [method |-> "transform", batch |-> batch,
                   outcome |-> r.outcome, result |-> r.result]
    /\ pc' = "done"
    /\ UNCHANGED <<self, made, fed>>

ConstructScaler ==
    /\ pc = "idle"
    /\ self.class = "none"
    /\ self' = NewChannellwiseScaler(UnfittedScaler)
    /\ made' = self'
    /\ call' = [method |-> "__init__", class |-> self'.class, outcome |-> "ok"]
    /\ pc' = "done"
    /\ UNCHANGED fed

\* fit takes many records; the guard keeps n_samples_seen within MaxSeen
FitScaler ==
    /\ pc = "idle"
    /\ self.class = "ChannellwiseScaler"
    /\ \E batch \in EegBatches :
          /\ fed.count + TotalTicks(batch.data) <= MaxSeen
          /\ LET r == ChannellwiseScaler_fit(self, batch) IN
             /\ self' = [self EXCEPT !.scaler = r.scaler]
             /\ call' = [method |-> "fit", batch |-> batch, outcome |-> r.outcome,
                         pre |-> self.scaler, log |-> r.log, returned |-> self']
          /\ fed' = Feed(fed, batch.data)
    /\ pc' = "done"
    /\ UNCHANGED made

TransformScaler ==
    /\ pc = "idle"
    /\ self.class = "ChannellwiseScaler"
    /\ \E batch \in EegInputs :
          LET r == ChannellwiseScaler_transform(self, batch) IN
          /\ self' = [self EXCEPT !.scaler = r.scaler]
          /\ call' = [method |-> "transform", batch |-> batch, outcome |-> r.outcome,
                      pre |-> self.scaler, log |-> r.log, result |-> r.result]
    /\ pc' = "done"
    /\ UNCHANGED <<made, fed>>

\* the caller takes the result (or the exception) and goes on
Return ==
    /\ pc = "done"
    /\ pc' = "idle"
    /\ call' = NoCall
    /\ UNCHANGED <<self, made, fed>>

NextMarkers == ConstructMarkers \/ FitMarkers \/ TransformMarkers \/ Return

SpecMarkers == Init /\ [][NextMarkers]_vars

NextButter == ConstructButter \/ FitButter \/ TransformButter \/ Return

SpecButter == Init /\ [][NextButter]_vars

NextDecimator == ConstructDecimator \/ FitDecimator \/ TransformDecimator \/ Return

SpecDecimator == Init /\ [][NextDecimator]_vars

\* the three classes that inherit Transform.fit
NextInherited ==
    \/ ConstructButter \/ FitButter \/ TransformButter
    \/ ConstructDecimator \/ FitDecimator \/ TransformDecimator
    \/ ConstructMarkers \/ FitMarkers \/ TransformMarkers
    \/ Return

SpecInherited == Init /\ [][NextInherited]_vars

NextScaler == ConstructScaler \/ FitScaler \/ TransformScaler \/ Return

SpecScaler == Init /\ [][NextScaler]_vars

Next ==
    \/ ConstructButter \/ FitButter \/ TransformButter
    \/ ConstructDecimator \/ FitDecimator \/ TransformDecimator
    \/ ConstructScaler \/ FitScaler \/ TransformScaler
    \/ ConstructMarkers \/ FitMarkers \/ TransformMarkers
    \/ Return

Spec == Init /\ [][Next]_vars

----------------------------------------------------------------------------
(* What the claims speak of, stated without the code's loops *)

MarkersCall(method) ==
    /\ pc = "done"
    /\ self.class = "MarkersTransformer"
    /\ call.method = method

\* the 0-based positions of a record that hold an event
EventPositions(markers, empty_label) ==
    {i \in 0..(Len(markers) - 1) : markers[i + 1] # empty_label}

\* the k-th smallest member of a finite set of numbers
KthSmallest(S, k) == CHOOSE i \in S : Cardinality({j \in S : j < i}) = k - 1

Unmapped(obj, markers) ==
    \E i \in EventPositions(markers, obj.empty_label) :
        markers[i + 1] \notin DOMAIN obj.labels_mapping

AllMapped(obj, batch) == \A r \in 1..Len(batch) : ~Unmapped(obj, batch[r])

\* every label the batch reaches is a Python int
AllIntLabels(obj, batch) ==
    \A r \in 1..Len(batch) :
        \A i \in EventPositions(batch[r], obj.empty_label) :
            obj.labels_mapping[batch[r][i + 1]].kind = "int"

\* a record whose labels are all found but not all convertible to int
Unconvertible(obj, markers) ==
    /\ ~Unmapped(obj, markers)
    /\ \E i \in EventPositions(markers, obj.empty_label) :
          obj.labels_mapping[markers[i + 1]].kind = "str"

\* the result holds, per record and in sample order, one event per non-empty
\* sample, with the floor-divided index and the label given by LabelOf
EventsAre(obj, batch, result, LabelOf(_)) ==
    /\ Len(result) = Len(batch)
    /\ \A r \in 1..Len(batch) :
          LET pos == EventPositions(batch[r], obj.empty_label) IN
          /\ Len(result[r]) = Cardinality(pos)
          /\ \A k \in 1..Cardinality(pos) :
                LET i == KthSmallest(pos, k) IN
                /\ result[r][k][1] * obj.decimation_factor <= i
                /\ i < (result[r][k][1] + 1) * obj.decimation_factor
                /\ result[r][k][2] = LabelOf(obj.labels_mapping[batch[r][i + 1]])

SameLabel(label) == label

\* the integer a numeric label is truncated to (toward zero)
Truncated(label) ==
    IF label.kind = "int" THEN label
    ELSE IntLabel(CHOOSE n \in -label.num..label.num :
                     IF label.num >= 0
                     THEN 2 * n <= label.num /\ label.num < 2 * n + 2
                     ELSE 2 * n >= label.num /\ label.num > 2 * n - 2)

----------------------------------------------------------------------------
(* C1 *)

\* C1 as stated: whenever every non-empty sample is a key of labels_mapping,
\* transform returns, per record and in order, exactly the events
\* (i // decimation_factor, labels_mapping[v]).
C1_AsStated ==
    MarkersCall("transform") /\ AllMapped(self, call.batch)
        => /\ call.outcome = "ok"
           /\ EventsAre(self, call.batch, call.result, SameLabel)

\* C1 (amended): when every non-empty sample is a key mapped to an integer label,
\* transform returns one event sequence per record, in batch order, holding in
\* increasing sample order exactly one event (i // decimation_factor,
\* labels_mapping[v]) per non-empty sample and none for an empty one; whenever
\* transform returns at all, the events are these with the label converted to an
\* integer (a float label truncated).
C1_Events ==
    MarkersCall("transform")
        => /\ AllMapped(self, call.batch) /\ AllIntLabels(self, call.batch)
                => /\ call.outcome = "ok"
                   /\ EventsAre(self, call.batch, call.result, SameLabel)
           /\ call.outcome = "ok"
                => /\ AllMapped(self, call.batch)
                   /\ EventsAre(self, call.batch, call.result, Truncated)

\* two records, decimation by 2, an event at an odd sample of the second record
C1_Witness ==
    /\ MarkersCall("transform")
    /\ call.outcome = "ok"
    /\ self.decimation_factor = 2
    /\ Len(call.batch) = 2
    /\ Len(call.batch[2]) = 2
    /\ call.batch[2][1] = self.empty_label
    /\ call.batch[2][2] # self.empty_label
    /\ Len(call.batch[1]) = 2
    /\ call.batch[1][1] # self.empty_label
    /\ call.batch[1][2] # self.empty_label
    /\ AllIntLabels(self, call.batch)

----------------------------------------------------------------------------
(* C2 *)

ExampleCall(mapping, factor) ==
    /\ MarkersCall("transform")
    /\ call.batch = <<ExampleMarkers>>
    /\ self.labels_mapping = mapping
    /\ self.empty_label = 0
    /\ self.decimation_factor = factor

StringExample == (2 :> StrLabel("A")) @@ (1 :> StrLabel("B"))
IntegerExample == (2 :> IntLabel(7)) @@ (1 :> IntLabel(8))

\* C2 as stated: markers [0,0,2,0,1,0] with {2:"A", 1:"B"} give [(2,"A"),(4,"B")]
\* for decimation_factor 1 and [(1,"A"),(2,"B")] for decimation_factor 2.
C2_AsStated ==
    /\ ExampleCall(StringExample, 1)
          => /\ call.outcome = "ok"
             /\ call.result = << << <<2, StrLabel("A")>>, <<4, StrLabel("B")>> >> >>
    /\ ExampleCall(StringExample, 2)
          => /\ call.outcome = "ok"
             /\ call.result = << << <<1, StrLabel("A")>>, <<2, StrLabel("B")>> >> >>

\* C2 (amended): markers [0,0,2,0,1,0] with the integer labels {2:7, 1:8} give
\* [(2,7),(4,8)] for decimation_factor 1 and [(1,7),(2,8)] for decimation_factor
\* 2; with the string labels {2:"A", 1:"B"} the conversion of the events to an
\* integer array fails (ValueError) and nothing is returned.
C2_Example ==
    /\ ExampleCall(IntegerExample, 1)
          => /\ call.outcome = "ok"
             /\ call.result = << << <<2, IntLabel(7)>>, <<4, IntLabel(8)>> >> >>
    /\ ExampleCall(IntegerExample, 2)
          => /\ call.outcome = "ok"
             /\ call.result = << << <<1, IntLabel(7)>>, <<2, IntLabel(8)>> >> >>
    /\ \A f \in DecimationFactors :
          ExampleCall(StringExample, f) => call.outcome = "ValueError"

C2_Witness ==
    /\ ExampleCall(IntegerExample, 2)
    /\ call.outcome = "ok"
    /\ Len(call.result[1]) = 2

----------------------------------------------------------------------------
(* C3 *)

\* C3 as stated: a batch with a sample that is neither empty_label nor a key
\* makes transform fail with the lookup error.
C3_AsStated ==
    MarkersCall("transform") /\ ~AllMapped(self, call.batch)
        => call.outcome = "KeyError"

\* the first record that holds an unmapped sample
FirstUnmapped(obj, batch) ==
    CHOOSE r \in 1..Len(batch) :
        /\ Unmapped(obj, batch[r])
        /\ \A q \in 1..(r - 1) : ~Unmapped(obj, batch[q])

\* C3 (amended): a batch with a sample that is neither empty_label nor a key makes
\* transform fail and return nothing; the sample is never dropped or given a
\* default.  The failure is the lookup error (KeyError), unless a record before
\* the first one with such a sample has a label that does not convert to an
\* integer: then that conversion's ValueError comes first.
C3_LookupFails ==
    MarkersCall("transform") /\ ~AllMapped(self, call.batch)
        => LET first == FirstUnmapped(self, call.batch) IN
           call.outcome =
              IF \E q \in 1..(first - 1) : Unconvertible(self, call.batch[q])
              THEN "ValueError"
              ELSE "KeyError"

\* the unmapped sample sits in the second record, after events of the first
C3_Witness ==
    /\ MarkersCall("transform")
    /\ call.outcome = "KeyError"
    /\ Len(call.batch) = 2
    /\ ~Unmapped(self, call.batch[1])
    /\ EventPositions(call.batch[1], self.empty_label) # {}
    /\ Unmapped(self, call.batch[2])

----------------------------------------------------------------------------
(* C4 *)

ScalerCall(method) ==
    /\ pc = "done"
    /\ self.class = "ChannellwiseScaler"
    /\ call.method = method

MinOf(S) == CHOOSE m \in S : \A x \in S : m <= x
MaxOf(S) == CHOOSE m \in S : \A x \in S : m >= x

\* the scaler a fit of `records` leaves when it starts from scaler s
AfterFit(s, records) ==
    ChannellwiseScaler_fit(NewChannellwiseScaler(s), ManyRecords(records)).scaler

\* C4: with a running min/max scaler, the state after successive fits is the one
\* a single fit on the concatenation of their batches leaves: the statistics are
\* those of all the samples of every batch fitted so far (nothing is reset), a fit
\* on B1 ++ B2 ends in the state of a fit on B1 followed by a fit on B2, and fit
\* returns the object it was called on.
C4_Accumulates ==
    self.class = "ChannellwiseScaler"
        => /\ self.scaler.fitted = (fed.count > 0)
           /\ self.scaler.n_samples_seen = fed.count
           /\ self.scaler.fitted
                => \A c \in Channels :
                      /\ self.scaler.data_min[c] = MinOf(fed.values[c])
                      /\ self.scaler.data_max[c] = MaxOf(fed.values[c])
           /\ ScalerCall("fit")
                => /\ call.outcome = "ok"
                   /\ call.returned = self
                   /\ \A k \in 0..Len(call.batch.data) :
                         LET B1 == SubSeq(call.batch.data, 1, k)
                             B2 == SubSeq(call.batch.data, k + 1, Len(call.batch.data))
                         IN  self.scaler = AfterFit(AfterFit(call.pre, B1), B2)

\* a second fit, of two records, that moved a statistic of the first
C4_Witness ==
    /\ ScalerCall("fit")
    /\ call.pre.fitted
    /\ Len(call.batch.data) = 2
    /\ self.scaler.data_min # call.pre.data_min
    /\ self.scaler.data_max = call.pre.data_max

----------------------------------------------------------------------------
(* C5 *)

\* the matrix (samples x channels) of a record (channels x samples)
SamplesByChannels(eeg) ==
    [t \in 1..Len(eeg[1]) |-> [c \in 1..Len(eeg) |-> eeg[c][t]]]

SameShape(array, eeg) ==
    /\ array.ndim = 2
    /\ Len(array.data) = Len(eeg)
    /\ \A c \in 1..Len(eeg) : Len(array.data[c]) = Len(eeg[c])

\* C5: after a fit, transform succeeds on a single 2-D record and on a sequence
\* of 2-D records alike; the output has the container form of the input and a
\* record of the input's shape for each of its records, and the wrapped scaler
\* was handed every record as a (samples x channels) matrix.
C5_AsStated ==
    ScalerCall("transform") /\ call.pre.fitted
        => /\ call.outcome = "ok"
           /\ call.result.form = call.batch.form
           /\ Len(call.result.items) = Len(call.batch.data)
           /\ Len(call.log) = Len(call.batch.data)
           /\ \A k \in 1..Len(call.batch.data) :
                 /\ SameShape(call.result.items[k], call.batch.data[k])
                 /\ call.log[k].ndim = 2
                 /\ call.log[k].data = SamplesByChannels(call.batch.data[k])

----------------------------------------------------------------------------
(* C8 *)

\* C8 as stated: transform on a scaler that was never fitted ends in the
\* scaler's NotFittedError.
C8_AsStated ==
    ScalerCall("transform") /\ ~call.pre.fitted
        => call.outcome = "NotFittedError"

\* C8 (amended): transform of an input with at least one record, on a scaler that
\* was never fitted, ends in the scaler's NotFittedError and returns nothing; a
\* batch of no records never reaches the scaler and comes back empty.
C8_NotFitted ==
    ScalerCall("transform") /\ ~call.pre.fitted
        => IF call.batch.data = <<>>
           THEN /\ call.outcome = "ok"
                /\ call.result.items = <<>>
                /\ call.log = <<>>
           ELSE /\ call.outcome = "NotFittedError"
                /\ call.result.items = <<>>
                /\ Len(call.log) = 1

C8_Witness ==
    /\ ScalerCall("transform")
    /\ ~call.pre.fitted
    /\ call.batch.form = "many"
    /\ Len(call.batch.data) = 2
    /\ call.outcome = "NotFittedError"

----------------------------------------------------------------------------
(* C9 *)

\* the samples of channel c in a batch of records
ChannelSamples(records, c) ==
    UNION {{records[r][c][t] : t \in 1..Len(records[r][c])} : r \in 1..Len(records)}

\* C9: a transform call, ending well or not, leaves the scaler's accumulators as
\* they were, and so does the caller's taking of a result; a fit hands the scaler
\* each record of the batch once, in batch order, as its (samples x channels)
\* transpose, and the accumulators move by exactly those records.
C9_OnlyFitChanges ==
    [][self.class = "ChannellwiseScaler"
        => /\ pc' = "done" /\ call'.method = "transform"
                => self'.scaler = self.scaler
           /\ pc' = "idle" => self'.scaler = self.scaler
           /\ pc' = "done" /\ pc = "idle" /\ call'.method = "fit"
                => LET records == call'.batch.data IN
                   /\ Len(call'.log) = Len(records)
                   /\ \A k \in 1..Len(records) :
                         /\ call'.log[k].ndim = 2
                         /\ call'.log[k].data = SamplesByChannels(records[k])
                   /\ self'.scaler.n_samples_seen
                         = self.scaler.n_samples_seen + TotalTicks(records)
                   /\ records # <<>>
                        => \A c \in Channels :
                              LET old == IF self.scaler.fitted
                                         THEN {self.scaler.data_min[c],
                                               self.scaler.data_max[c]}
                                         ELSE {}
                                  all == old \cup ChannelSamples(records, c)
                              IN  /\ self'.scaler.data_min[c] = MinOf(all)
                                  /\ self'.scaler.data_max[c] = MaxOf(all)
                   /\ records = <<>> => self'.scaler = self.scaler]_vars

\* a transform of two records on a fitted scaler
C9_Witness ==
    /\ ScalerCall("transform")
    /\ call.pre.fitted
    /\ call.outcome = "ok"
    /\ Len(call.batch.data) = 2
    /\ fed.count >= 3

----------------------------------------------------------------------------
(* C6 *)

DecimatorCall(method) ==
    /\ pc = "done"
    /\ self.class = "Decimator"
    /\ call.method = method

\* one output per input record, in order: output r has ceil(len / factor)
\* samples, those of input r at the positions 0, factor, 2 factor, ...
DecimatedLengths(factor, batch, result) ==
    /\ Len(result) = Len(batch)
    /\ \A r \in 1..Len(batch) :
          LET n == Len(batch[r])
              m == Len(result[r])
          IN  /\ (m - 1) * factor < n
              /\ n <= m * factor
              /\ \A k \in 1..m : result[r][k].tap = batch[r][(k - 1) * factor + 1]

\* C6 as stated: for every factor >= 1 each output record has length
\* ceil(len(input record) / factor), one output per input, in order.
C6_AsStated ==
    DecimatorCall("transform")
        => /\ call.outcome = "ok"
           /\ DecimatedLengths(self.factor, call.batch, call.result)

\* C6 (amended): when every record of the batch has more than 27 samples (the
\* padding of the zero-phase anti-aliasing filter), transform returns one output
\* per input record, in order, of length ceil(len(input record) / factor), for
\* every factor >= 1; a record of 27 samples or fewer makes the call fail with a
\* ValueError.
C6_Lengths ==
    DecimatorCall("transform")
        => IF \A r \in 1..Len(call.batch) : Len(call.batch[r]) > DecimatePadlen
           THEN /\ call.outcome = "ok"
                /\ DecimatedLengths(self.factor, call.batch, call.result)
           ELSE call.outcome = "ValueError"

\* two records of different lengths, a factor that divides neither
C6_Witness ==
    /\ DecimatorCall("transform")
    /\ call.outcome = "ok"
    /\ self.factor = 3
    /\ Len(call.batch) = 2
    /\ Len(call.batch[1]) = 29
    /\ Len(call.batch[2]) = 28
    /\ Len(call.result[1]) = 10
    /\ Len(call.result[2]) = 10

----------------------------------------------------------------------------
(* C7 *)

ButterInitCall ==
    /\ pc = "done"
    /\ call.method = "__init__"
    /\ call.class = "ButterFilter"

BelowNyquist(f, sampling_rate) == 2 * f < sampling_rate

\* C7 as stated: construction fails when highpass >= lowpass or a cutoff is at or
\* above Nyquist, and succeeds when highpass < lowpass < Nyquist; no ButterFilter
\* with such cutoffs exists.
C7_AsStated ==
    /\ ButterInitCall
          => IF /\ call.highpass < call.lowpass
                /\ BelowNyquist(call.lowpass, call.sampling_rate)
             THEN call.outcome = "ok" /\ self.class = "ButterFilter"
             ELSE call.outcome # "ok" /\ self.class = "none"
    /\ self.class = "ButterFilter"
          => /\ self.highpass < self.lowpass
             /\ BelowNyquist(self.lowpass, self.sampling_rate)

\* C7 (amended): construction fails when highpass >= lowpass or a cutoff is at or
\* above Nyquist, and also when highpass is not positive; it succeeds when
\* 0 < highpass < lowpass < Nyquist; no ButterFilter with other cutoffs exists.
C7_Cutoffs ==
    /\ ButterInitCall
          => IF /\ 0 < call.highpass
                /\ call.highpass < call.lowpass
                /\ BelowNyquist(call.lowpass, call.sampling_rate)
             THEN call.outcome = "ok" /\ self.class = "ButterFilter"
             ELSE call.outcome # "ok" /\ self.class = "none"
    /\ self.class = "ButterFilter"
          => /\ 0 < self.highpass
             /\ self.highpass < self.lowpass
             /\ BelowNyquist(self.lowpass, self.sampling_rate)

\* a band in the right order whose upper edge is between Nyquist and the rate
C7_Witness ==
    /\ ButterInitCall
    /\ call.outcome = "ValueError"
    /\ 0 < call.highpass
    /\ call.highpass < call.lowpass
    /\ BelowNyquist(call.highpass, call.sampling_rate)
    /\ ~BelowNyquist(call.lowpass, call.sampling_rate)
    /\ call.lowpass < call.sampling_rate

----------------------------------------------------------------------------
(* C10 *)

InheritsFit == {"ButterFilter", "Decimator", "MarkersTransformer"}

TransformOf(obj, batch) ==
    CASE obj.class = "ButterFilter" -> ButterFilter_transform(obj, batch)
      [] obj.class = "Decimator" -> Decimator_transform(obj, batch)
      [] obj.class = "MarkersTransformer" -> MarkersTransformer_transform(obj, batch)

\* C10: for ButterFilter, Decimator and MarkersTransformer, after any calls of fit
\* and transform the object (hyperparameters and filter coefficients) is as its
\* constructor left it; fit returns the object it was called on, and transform
\* gives what it gives on the object as constructed.
C10_FitChangesNothing ==
    self.class \in InheritsFit
        => /\ self = made
           /\ pc = "done" /\ call.method = "fit"
                => call.outcome = "ok" /\ call.returned = made
           /\ pc = "done" /\ call.method = "transform"
                => LET r == TransformOf(made, call.batch) IN
                   call.outcome = r.outcome /\ call.result = r.result

\* a fit of a ButterFilter has just returned
C10_Witness ==
    /\ pc = "done"
    /\ self.class = "ButterFilter"
    /\ call.method = "fit"

====
